---- MODULE Spec2Model ----
(***************************************************************************)
(* HDRI Sun Aligner operators (Dataset_Tools/hdri_operators.py):           *)
(* calculate_sun_position and its helpers create_circular_mask,            *)
(* gaussian_blur and process_hdri.                                         *)
(*                                                                         *)
(* Conventions                                                             *)
(*  - a float is an integer: a finite value v >= 0 (channel values in      *)
(*    units of 1.0, luminance in thousandths), or one of NaN, Inf;         *)
(*  - a numpy array of shape [h, w] is a function [0..h-1 -> [0..w-1 ->    *)
(*    ...]]; the flat pixel buffer image.pixels is a function on           *)
(*    0..4*w*h-1 (row-major, RGBA);                                         *)
(*  - the degrees returned by process_hdri are exact rationals <<n, d>>    *)
(*    in lowest terms (the code divides in float64).                       *)
(***************************************************************************)
EXTENDS Integers, Sequences, FiniteSets, TLC

VARIABLES
    images,     \* bpy.data.images: sequence of [id, name, size, pixels]
    world_nodes,\* the world's Environment Texture nodes, in node order: each node's image (an id) or None
    props,      \* scene.hdri_sa_props: long_deg, lat_deg, sun_position_calculated
    ret,        \* what the last operator call returned: FINISHED, CANCELLED, or raised
    loc,        \* the locals of the last process_hdri call
    mask_call   \* the arguments and result of the last create_circular_mask call

vars == <<images, world_nodes, props, ret, loc, mask_call>>

----------------------------------------------------------------------------
(* Bounds of the model *)

\* small images: widths 1..SmallW, heights 1..SmallH
SmallW == 3
SmallH == 2
\* the large image (the 100 x 50 panorama of the spec's worked example)
BigW == 100
BigH == 50
\* how many pixels of a smoothed field may tie for the maximum
MaxTies == 2
\* create_circular_mask standalone: grids of heights 1..MaskH and widths 1..MaskW
MaskH == 2
MaskW == 53
\* number of images loaded besides the preview
NImages == 2
\* number of Environment Texture nodes the world may hold
MaxNodes == 2

----------------------------------------------------------------------------
(* Floats *)

NaN == 0 - 1
Inf == 0 - 2
IsFinite(v) == v >= 0

None == 0 - 1

\* exact rationals in lowest terms, denominator > 0
RECURSIVE GCD(_, _)
GCD(a, b) == IF b = 0 THEN a ELSE GCD(b, a % b)
Abs(a) == IF a < 0 THEN -a ELSE a
Rat(n, d) == LET g == GCD(Abs(n), d) IN <<n \div g, d \div g>>
RatAdd(r, k) == Rat(r[1] + k * r[2], r[2])
RatNeg(r) == <<-r[1], r[2]>>
NoRat == <<0, 0>>

----------------------------------------------------------------------------
(* numpy arrays *)

depth == 4

\* np.array(image.pixels[:]).reshape([height, width, depth])
Reshape(flat, height, width) ==
    [y \in 0..(height - 1) |-> [x \in 0..(width - 1) |-> [c \in 0..(depth - 1) |->
        flat[(y * width + x) * depth + c]]]]

\* hdri_img.ravel()
Ravel(arr, height, width) ==
    [i \in 0..(height * width * depth - 1) |->
        arr[i \div (width * depth)][(i \div depth) % width][i % depth]]

----------------------------------------------------------------------------
(* create_circular_mask *)

\* int(w/2) for w >= 0
IntHalf(w) == w \div 2

Min4(a, b, c, d) == CHOOSE m \in {a, b, c, d} : \A k \in {a, b, c, d} : m <= k

\* np.sqrt(n) <= r and np.sqrt(n) >= r for integers n >= 0 and r: float64 sqrt is
\* correctly rounded and exact on perfect squares, so the comparison with an
\* integer r is decided by n against r*r
\* (mutant) dist_from_center < radius
SqrtLess(n, r) == r > 0 /\ n < r * r
SqrtLeq(n, r) == r >= 0 /\ n <= r * r
SqrtGeq(n, r) == r <= 0 \/ n >= r * r

MaskCenter(h, w, center) == IF center = <<>> THEN <<IntHalf(w), IntHalf(h)>> ELSE center

MaskRadius(h, w, center, radius) ==
    IF radius = None
    THEN LET c == MaskCenter(h, w, center) IN Min4(c[1], c[2], w - c[1], h - c[2])
    ELSE radius

create_circular_mask(h, w, thickness, center, radius) ==
    LET c == MaskCenter(h, w, center)
        r == MaskRadius(h, w, center, radius)
        dist2(Y, X) == (X - c[1]) * (X - c[1]) + (Y - c[2]) * (Y - c[2])
    IN [Y \in 0..(h - 1) |-> [X \in 0..(w - 1) |->
            SqrtLeq(dist2(Y, X), r) /\ SqrtGeq(dist2(Y, X), r - thickness)]]

----------------------------------------------------------------------------
(* gaussian_blur *)

sigma == 100

Cells(rows, cols) == (0..(rows - 1)) \X (0..(cols - 1))

Holds(field, rows, cols, v) == \E c \in Cells(rows, cols) : field[c[1]][c[2]] = v

Const(rows, cols, v) == [y \in 0..(rows - 1) |-> [x \in 0..(cols - 1) |-> v]]

\* np.fft.fft2 refuses an axis of length 0 (ValueError)
FFTRaises(rows, cols) == rows = 0 \/ cols = 0

\* The pixels at which the fields drawn below may peak: every pixel of a small
\* grid, six places of a large one (the top row and row h/5; the left edge, the
\* right edge and column 3w/4: (75, 10) in 100 x 50 is the worked example).
HotSpots(rows, cols) ==
    IF rows <= SmallH /\ cols <= SmallW
    THEN Cells(rows, cols)
    ELSE {0, rows \div 5} \X {0, (3 * cols) \div 4, cols - 1}

\* The non-negative finite fields the transform pair may return for a finite,
\* non-zero input. The FFT is over the reals and is not computed here: every
\* field that peaks (level 2 over level 1) on 1..MaxTies of the HotSpots is a
\* possible result.
SmoothedFields(rows, cols) ==
    { [y \in 0..(rows - 1) |-> [x \in 0..(cols - 1) |-> IF <<y, x>> \in S THEN 2 ELSE 1]] :
        S \in { T \in SUBSET HotSpots(rows, cols) : Cardinality(T) >= 1 /\ Cardinality(T) <= MaxTies } }

\* gaussian_blur(gray_image, sigma) for rows, cols >= 1: the set of fields it may
\* return (imagep = abs(ifft2(fftshift(fft2(gray_image)) * gmask))).
\*  - a NaN in the input reaches every bin of fft2 (each output sums every input),
\*    stays NaN through the product and ifft2, and abs(NaN) is NaN;
\*  - an Inf in a grid of more than one cell meets inf - inf in the butterflies:
\*    the result holds NaN (modelled as all NaN: np.amax only asks whether one is);
\*  - a 1 x 1 transform is the identity: inf * gmask keeps an infinite real part
\*    and abs() of it is inf;
\*  - the transform of the zero field is the zero field;
\*  - gmask > 0 everywhere (sigma = 100), so no finite non-zero field is annihilated.
gaussian_blur(gray_image, rows, cols, sigma_) ==
    IF Holds(gray_image, rows, cols, NaN) THEN {Const(rows, cols, NaN)}
    ELSE IF Holds(gray_image, rows, cols, Inf)
         THEN (IF rows * cols = 1 THEN {Const(rows, cols, Inf)} ELSE {Const(rows, cols, NaN)})
    ELSE IF \A c \in Cells(rows, cols) : gray_image[c[1]][c[2]] = 0 THEN {Const(rows, cols, 0)}
    ELSE SmoothedFields(rows, cols)

----------------------------------------------------------------------------
(* process_hdri *)

\* np.dot(hdri_img[..., :3], [0.299, 0.587, 0.114]) for one pixel, in thousandths
Luma(px) ==
    IF NaN \in {px[0], px[1], px[2]} THEN NaN
    ELSE IF Inf \in {px[0], px[1], px[2]} THEN Inf
    ELSE 299 * px[0] + 587 * px[1] + 114 * px[2]

GrayImg(hdri_img, height, width) ==
    [y \in 0..(height - 1) |-> [x \in 0..(width - 1) |-> Luma(hdri_img[y][x])]]

SetMin(S) == CHOOSE m \in S : \A k \in S : m <= k
SetMax(S) == CHOOSE m \in S : \A k \in S : k <= m

\* np.amax: NaN if the field holds one, else the largest value
amax(field, rows, cols) ==
    LET values == { field[c[1]][c[2]] : c \in Cells(rows, cols) }
    IN IF NaN \in values THEN NaN
       ELSE IF Inf \in values THEN Inf
       ELSE SetMax(values)

\* np.where(gray_img == m), zipped: the coordinates (y, x) that compare equal
\* (NaN compares equal to nothing)
where_eq(field, rows, cols, m) ==
    IF m = NaN THEN {} ELSE { c \in Cells(rows, cols) : field[c[1]][c[2]] = m }

\* (mutant) the last coordinate found instead of the first
first_coordinate_last(coords) ==
    LET y0 == SetMax({ c[1] : c \in coords })
    IN <<y0, SetMax({ c[2] : c \in { d \in coords : d[1] = y0 } })>>

\* list_of_coordinates[0]: np.where lists in row-major order
first_coordinate(coords) ==
    LET y0 == SetMin({ c[1] : c \in coords })
    IN <<y0, SetMin({ c[2] : c \in { d \in coords : d[1] = y0 } })>>

\* hdri_img[:, :, c][mask] = v
SetChannel(hdri_img, mask, c, v, height, width) ==
    [y \in 0..(height - 1) |-> [x \in 0..(width - 1) |-> [k \in 0..(depth - 1) |->
        IF k = c /\ mask[y][x] THEN v ELSE hdri_img[y][x][k]]]]

\* (mutant) the masked pixels set to opaque red, alpha included
DrawOpaque(hdri_img, mask, height, width) ==
    SetChannel(SetChannel(SetChannel(SetChannel(hdri_img, mask, 0, 1, height, width),
                                     mask, 1, 0, height, width),
                          mask, 2, 0, height, width),
               mask, 3, 1, height, width)

\* red, green, blue of the masked pixels set to 1, 0, 0
Draw(hdri_img, mask, height, width) ==
    SetChannel(SetChannel(SetChannel(hdri_img, mask, 0, 1, height, width),
                          mask, 1, 0, height, width),
               mask, 2, 0, height, width)

\* (mutant) the offset of half a turn left out
LongDegNoOffset(max_x, width) == Rat(max_x * 360, width)

\* ((max_x * 360) / width) - 180
LongDeg(max_x, width) == RatAdd(Rat(max_x * 360, width), -180)

\* (mutant) the outer negation left out: row 0 at +90
LatDegNorthUp(max_y, height) == RatAdd(Rat(max_y * (-180), height), 90)

\* -(((max_y * -180) / height) + 90)
LatDeg(max_y, height) == RatNeg(RatAdd(Rat(max_y * (-180), height), 90))

Raised(exc, pixels) ==
    [raised |-> exc, pixels |-> pixels, gray_img |-> <<>>, max_loc |-> <<>>,
     long_deg |-> NoRat, lat_deg |-> NoRat]

\* process_hdri from the smoothed field on (lines 235-269)
Locate(pixels, hdri_img, gray_img, height, width) ==
    LET coords == where_eq(gray_img, height, width, amax(gray_img, height, width))
    IN IF coords = {}
       THEN [Raised("IndexError", pixels) EXCEPT !.gray_img = gray_img]
       ELSE LET max_loc_new == first_coordinate(coords)
                max_x == max_loc_new[2]
                max_y == max_loc_new[1]
                circle_mask == create_circular_mask(height, width, 4, <<max_x, max_y>>, 50)
                point_mask == create_circular_mask(height, width, 4, <<max_x, max_y>>, 5)
                drawn == Draw(Draw(hdri_img, circle_mask, height, width),
                              point_mask, height, width)
            IN [raised |-> "", pixels |-> Ravel(drawn, height, width),
                gray_img |-> gray_img, max_loc |-> <<max_x, max_y>>,
                long_deg |-> LongDeg(max_x, width), lat_deg |-> LatDeg(max_y, height)]

\* process_hdri(image): the set of its outcomes. An outcome holds what the call
\* raised ("" when it returned), image.pixels afterwards, the smoothed field, the
\* peak (max_x, max_y) and the returned degrees.
process_hdri(pixels, size) ==
    LET width == size[1]
        height == size[2]
        hdri_img == Reshape(pixels, height, width)
        gray_img == GrayImg(hdri_img, height, width)
    IN IF FFTRaises(height, width)
       THEN {Raised("ValueError", pixels)}
       ELSE { Locate(pixels, hdri_img, b, height, width) :
                b \in gaussian_blur(gray_img, height, width, sigma) }

----------------------------------------------------------------------------
(* Images *)

Black == <<0, 0, 0, 1>>
Cyan == <<0, 1, 1, 0>>
White == <<1, 1, 1, 1>>

\* a size[1] x size[2] buffer of colour bg with colour fg at pixel spot = <<x, y>>
Picture(size, bg, spot, fg) ==
    [i \in 0..(size[1] * size[2] * depth - 1) |->
        LET p == i \div depth
        IN IF <<p % size[1], p \div size[1]>> = spot THEN fg[(i % depth) + 1]
           ELSE bg[(i % depth) + 1]]

SmallSizes == (1..SmallW) \X (1..SmallH)
Sizes == {<<0, 0>>} \cup SmallSizes \cup {<<BigW, BigH>>}

Spots(size) ==
    IF size \in SmallSizes
    THEN {<<0, 0>>, <<(3 * size[1]) \div 4, size[2] \div 5>>}
    ELSE {<<(3 * size[1]) \div 4, size[2] \div 5>>}

Backgrounds == {Black, Cyan}
Foregrounds(size) ==
    IF size \in SmallSizes
    THEN {White, <<NaN, 0, 0, 1>>, <<0, 0, 0, NaN>>, <<1, 1, 1, Inf>>}
    ELSE {White}

Pictures(size) ==
    { Picture(size, bg, <<>>, bg) : bg \in Backgrounds }
    \cup { Picture(size, bg, spot, fg) :
             bg \in Backgrounds, spot \in Spots(size), fg \in Foregrounds(size) }

IsPreviewName(name) == name[1] = "hdri_sa_preview"

NoLocals ==
    [called |-> FALSE, size |-> <<0, 0>>, buf0 |-> <<>>, raised |-> "", gray_img |-> <<>>,
     max_loc |-> <<>>, long_deg |-> NoRat, lat_deg |-> NoRat]

Locals(size, buf0, out) ==
    [called |-> TRUE, size |-> size, buf0 |-> buf0, raised |-> out.raised,
     gray_img |-> out.gray_img, max_loc |-> out.max_loc,
     long_deg |-> out.long_deg, lat_deg |-> out.lat_deg]

NoProps == [long_deg |-> NoRat, lat_deg |-> NoRat, sun_position_calculated |-> FALSE]

NoMaskCall == [done |-> FALSE, h |-> 0, w |-> 0, thickness |-> 0, center |-> <<>>,
               radius |-> None, mask |-> <<>>]

----------------------------------------------------------------------------
(* The Sun Locator on one image buffer *)

Init ==
    /\ \E size \in Sizes : \E pixels \in Pictures(size) :
         images = << [id |-> 1, name |-> <<"sky", ".", "hdr">>, file_format |-> "HDR",
                      size |-> size, pixels |-> pixels] >>
    /\ world_nodes = <<>>
    /\ props = NoProps
    /\ ret = "none"
    /\ loc = NoLocals
    /\ mask_call = NoMaskCall

\* one call process_hdri(images[1])
ProcessHdri ==
    /\ ~loc.called
    /\ \E out \in process_hdri(images[1].pixels, images[1].size) :
         /\ images' = [images EXCEPT ![1].pixels = out.pixels]
         /\ loc' = Locals(images[1].size, images[1].pixels, out)
         /\ ret' = IF out.raised = "" THEN "RETURNED" ELSE out.raised
    /\ UNCHANGED <<world_nodes, props, mask_call>>

Next == ProcessHdri

Spec == Init /\ [][Next]_vars

----------------------------------------------------------------------------
(* Claims about the Sun Locator *)

Returned == loc.called /\ loc.raised = ""
Width == loc.size[1]
Height == loc.size[2]
PeakX == loc.max_loc[1]
PeakY == loc.max_loc[2]
Pixels == images[1].pixels
RatLess(a, b) == a[1] * b[2] < b[1] * a[2]
RatLeq(a, b) == a[1] * b[2] <= b[1] * a[2]

\* the cells of the smoothed field that hold its largest value
FloatLeq(a, b) == b = Inf \/ (a # Inf /\ a <= b)
MaxCells ==
    LET values == { loc.gray_img[c[1]][c[2]] : c \in Cells(Height, Width) }
        top == CHOOSE v \in values : \A u \in values : FloatLeq(u, v)
    IN { c \in Cells(Height, Width) : loc.gray_img[c[1]][c[2]] = top }

\* C1: for a non-empty smoothed field (of magnitudes: no NaN) the call finds a
\* peak and raises nothing; the peak holds the global maximum and is the first
\* such pixel in row-major order (smallest y, then smallest x), ties included.
C1_PeakIsFirstMaximum ==
    (loc.called /\ loc.gray_img # <<>> /\ ~Holds(loc.gray_img, Height, Width, NaN))
    => /\ loc.raised = ""
       /\ <<PeakY, PeakX>> \in MaxCells
       /\ \A c \in MaxCells : PeakY < c[1] \/ (PeakY = c[1] /\ PeakX <= c[2])

\* two maxima, the later one in a lower row but a smaller column
C1_Witness ==
    /\ Returned
    /\ \E c \in MaxCells : c[1] > PeakY /\ c[2] < PeakX

\* squared distance of pixel (x, y) from the peak
PeakDist2(x, y) == (x - PeakX) * (x - PeakX) + (y - PeakY) * (y - PeakY)

\* distance from the peak in [46, 50] (annotation ring) or in [1, 5] (centre ring)
OnRings(x, y) ==
    \/ (PeakDist2(x, y) >= 46 * 46 /\ PeakDist2(x, y) <= 50 * 50)
    \/ (PeakDist2(x, y) >= 1 /\ PeakDist2(x, y) <= 5 * 5)

\* C3: after a run that returned, exactly the pixels on the two rings around the
\* peak are red (1, 0, 0); every other pixel keeps its four channels, every
\* pixel its alpha, and the buffer its width, height and length. The rings are
\* clipped at the border and never wrap.
C3_OnlyRingsPainted ==
    Returned =>
        /\ images[1].size = loc.size
        /\ DOMAIN Pixels = DOMAIN loc.buf0
        /\ DOMAIN Pixels = 0..(Width * Height * 4 - 1)
        /\ \A y \in 0..(Height - 1) : \A x \in 0..(Width - 1) :
             LET i == (y * Width + x) * 4
             IN /\ Pixels[i + 3] = loc.buf0[i + 3]
                /\ IF OnRings(x, y)
                   THEN Pixels[i] = 1 /\ Pixels[i + 1] = 0 /\ Pixels[i + 2] = 0
                   ELSE /\ Pixels[i] = loc.buf0[i]
                        /\ Pixels[i + 1] = loc.buf0[i + 1]
                        /\ Pixels[i + 2] = loc.buf0[i + 2]

\* the peak is nearer than 50 pixels to the left and the top edge, and a pixel of
\* the annotation ring as well as one of the centre ring has changed colour
C3_Witness ==
    /\ Returned
    /\ PeakX < 50 /\ PeakY < 50
    /\ \E y \in 0..(Height - 1) : \E x \in 0..(Width - 1) :
         /\ PeakDist2(x, y) >= 46 * 46
         /\ OnRings(x, y)
         /\ Pixels[(y * Width + x) * 4 + 1] # loc.buf0[(y * Width + x) * 4 + 1]
    /\ \E y \in 0..(Height - 1) : \E x \in 0..(Width - 1) :
         /\ PeakDist2(x, y) <= 5 * 5
         /\ Pixels[(y * Width + x) * 4 + 1] # loc.buf0[(y * Width + x) * 4 + 1]

\* C4: a run that returned has its peak inside the image and returns
\* longitude = x*360/width - 180 in [-180, 180) and
\* latitude = -((y*-180/height) + 90) in [-90, 90]; the peak (75, 10) of a
\* 100 x 50 image gives 90 and -54.
C4_AngularPosition ==
    Returned =>
        /\ Width > 0 /\ Height > 0
        /\ PeakX \in 0..(Width - 1) /\ PeakY \in 0..(Height - 1)
        /\ loc.long_deg[2] > 0 /\ loc.lat_deg[2] > 0
        /\ loc.long_deg[1] * Width = (PeakX * 360 - 180 * Width) * loc.long_deg[2]
        /\ loc.lat_deg[1] * Height = -(PeakY * (-180) + 90 * Height) * loc.lat_deg[2]
        /\ RatLeq(<<-180, 1>>, loc.long_deg) /\ RatLess(loc.long_deg, <<180, 1>>)
        /\ RatLeq(<<-90, 1>>, loc.lat_deg) /\ RatLeq(loc.lat_deg, <<90, 1>>)
        /\ (loc.size = <<100, 50>> /\ loc.max_loc = <<75, 10>>)
              => (loc.long_deg = <<90, 1>> /\ loc.lat_deg = <<-54, 1>>)

C4_Witness ==
    /\ Returned
    /\ loc.size = <<100, 50>> /\ loc.max_loc = <<75, 10>>
    /\ loc.long_deg = <<90, 1>> /\ loc.lat_deg = <<-54, 1>>

\* C5 as claimed: a peak at (0, 0) gives longitude -180 and latitude +90, and the
\* latitude of every lower row (larger y) is smaller.
C5_TopRowIsNorth ==
    Returned =>
        /\ (loc.max_loc = <<0, 0>>) => (loc.long_deg = <<-180, 1>> /\ loc.lat_deg = <<90, 1>>)
        /\ \A y \in (PeakY + 1)..(Height - 1) : RatLess(LatDeg(y, Height), loc.lat_deg)

\* C5 amended: a peak at (0, 0) gives longitude -180 and latitude -90; the
\* latitude grows with y and stays below +90 (row height - 1 gives
\* 90 - 180/height); the longitude grows with x from -180 and stays below +180.
C5_RowZeroIsSouth ==
    Returned =>
        /\ (loc.max_loc = <<0, 0>>) => (loc.long_deg = <<-180, 1>> /\ loc.lat_deg = <<-90, 1>>)
        /\ \A y \in (PeakY + 1)..(Height - 1) : RatLess(loc.lat_deg, LatDeg(y, Height))
        /\ \A x \in (PeakX + 1)..(Width - 1) : RatLess(loc.long_deg, LongDeg(x, Width))
        /\ RatLess(loc.lat_deg, <<90, 1>>) /\ RatLess(loc.long_deg, <<180, 1>>)
        /\ (PeakY = Height - 1) => (loc.lat_deg = Rat(90 * Height - 180, Height))

C5_Witness ==
    /\ Returned
    /\ Height > 1 /\ Width > 1
    /\ loc.max_loc = <<0, 0>>
    /\ loc.long_deg = <<-180, 1>> /\ loc.lat_deg = <<-90, 1>>

\* an empty buffer, or a pixel channel that is NaN or infinite
ViolatesPreconditions(pixels, size) ==
    \/ size[1] <= 0 \/ size[2] <= 0
    \/ \E i \in DOMAIN pixels : ~IsFinite(pixels[i])

\* C6 as claimed: a call whose input violates the preconditions raises, returns
\* no (longitude, latitude) and leaves the buffer as it was.
C6_ViolationsFailFast ==
    (loc.called /\ ViolatesPreconditions(loc.buf0, loc.size))
    => /\ loc.raised # ""
       /\ loc.long_deg = NoRat /\ loc.lat_deg = NoRat
       /\ Pixels = loc.buf0

----------------------------------------------------------------------------
(* create_circular_mask on its own *)

InitMask ==
    /\ images = <<>>
    /\ world_nodes = <<>>
    /\ props = NoProps
    /\ ret = "none"
    /\ loc = NoLocals
    /\ mask_call = NoMaskCall

Thicknesses == {1, 4}
Radii == {None, 0, 1, 5, 50}
Centers(h, w) == {<<>>, <<0, 0>>, <<w - 1, h - 1>>, <<w \div 2, 0>>, <<-2, 1>>}

\* one call create_circular_mask(h, w, thickness, center, radius)
CreateMask ==
    /\ ~mask_call.done
    /\ \E h \in 1..MaskH : \E w \in 1..MaskW :
       \E thickness \in Thicknesses : \E center \in Centers(h, w) : \E radius \in Radii :
         mask_call' = [done |-> TRUE, h |-> h, w |-> w, thickness |-> thickness,
                       center |-> center, radius |-> radius,
                       mask |-> create_circular_mask(h, w, thickness, center, radius)]
    /\ UNCHANGED <<images, world_nodes, props, ret, loc>>

NextMask == CreateMask

SpecMask == InitMask /\ [][NextMask]_vars

\* floor of the square root
ISqrt(n) == CHOOSE s \in 0..n : s * s <= n /\ (s + 1) * (s + 1) > n

\* sqrt(n) lies in the closed interval [lo, hi], for integers lo, hi
DistanceWithin(n, lo, hi) ==
    /\ ISqrt(n) >= lo
    /\ ISqrt(n) < hi \/ (ISqrt(n) = hi /\ ISqrt(n) * ISqrt(n) = n)

\* C2: with a centre C and a radius R given, the mask is true at (x, y) exactly
\* when the Euclidean distance of (x, y) from C lies in [R - T, R]; with C = (0, 0),
\* R = 50, T = 4 distance 48 is in and 30 and 52 are out, and with R = 5, T = 4 the
\* centre itself is out.
C2_RingMembership ==
    (mask_call.done /\ mask_call.center # <<>> /\ mask_call.radius # None) =>
        LET C == mask_call.center
            R == mask_call.radius
            T == mask_call.thickness
        IN /\ DOMAIN mask_call.mask = 0..(mask_call.h - 1)
           /\ \A y \in 0..(mask_call.h - 1) :
                /\ DOMAIN mask_call.mask[y] = 0..(mask_call.w - 1)
                /\ \A x \in 0..(mask_call.w - 1) :
                     mask_call.mask[y][x] <=>
                        DistanceWithin((x - C[1]) * (x - C[1]) + (y - C[2]) * (y - C[2]), R - T, R)
           /\ (C = <<0, 0>> /\ R = 50 /\ T = 4 /\ mask_call.w > 52)
                 => (mask_call.mask[0][48] /\ ~mask_call.mask[0][30] /\ ~mask_call.mask[0][52])
           /\ (R = 5 /\ T = 4 /\ C[1] \in 0..(mask_call.w - 1) /\ C[2] \in 0..(mask_call.h - 1))
                 => ~mask_call.mask[C[2]][C[1]]

C2_Witness ==
    /\ mask_call.done
    /\ mask_call.center = <<0, 0>> /\ mask_call.radius = 50 /\ mask_call.thickness = 4
    /\ mask_call.w > 52
    /\ mask_call.mask[0][48] /\ mask_call.mask[0][46] /\ mask_call.mask[0][50]
    /\ ~mask_call.mask[0][30] /\ ~mask_call.mask[0][52] /\ ~mask_call.mask[0][45]

----------------------------------------------------------------------------
(* calculate_sun_position.invoke *)

RemoveAt(seq, i) == SubSeq(seq, 1, i - 1) \o SubSeq(seq, i + 1, Len(seq))

Ids(imgs) == { imgs[i].id : i \in DOMAIN imgs }

Previews(imgs) == { i \in DOMAIN imgs : IsPreviewName(imgs[i].name) }

\* "for img in bpy.data.images: if img.name.startswith(...): bpy.data.images.remove(img)"
\* from position i on. The loop removes from the collection it iterates: after a
\* removal the iterator goes on either with the element that followed the removed
\* one or with the one after it (that element is skipped); both are kept.
RECURSIVE CleanupFrom(_, _)
CleanupFrom(imgs, i) ==
    IF i > Len(imgs) THEN {imgs}
    ELSE IF IsPreviewName(imgs[i].name)
         THEN CleanupFrom(RemoveAt(imgs, i), i) \cup CleanupFrom(RemoveAt(imgs, i), i + 1)
         ELSE CleanupFrom(imgs, i + 1)

\* (mutant) no cleanup before the copy
CleanupNothing(imgs) == {imgs}

Cleanup(imgs) == CleanupFrom(imgs, 1)

\* a removed image leaves the nodes that used it without an image
Unlink(nodes, imgs) ==
    [n \in DOMAIN nodes |-> IF nodes[n] \in Ids(imgs) THEN nodes[n] ELSE None]

\* "for node in world_nodes: if isinstance(node, ShaderNodeTexEnvironment): image = node.image":
\* the image of the last Environment Texture node
EnvImage(nodes) == IF nodes = <<>> THEN None ELSE nodes[Len(nodes)]

ImageOf(imgs, id) == CHOOSE r \in { imgs[i] : i \in DOMAIN imgs } : r.id = id

FreshId(imgs) == CHOOSE k \in 1..(Len(imgs) + 1) : k \notin Ids(imgs)

\* image.copy(), renamed "hdri_sa_preview." + image.file_format
PreviewOf(image, id) ==
    [image EXCEPT !.id = id, !.name = <<"hdri_sa_preview", ".", image.file_format>>]

\* invoke(context). Images wider than 1024 pixels (hdri_preview.scale) are beyond
\* the sizes of this model.
Invoke ==
    \E cleaned \in Cleanup(images) :
        LET nodes == Unlink(world_nodes, cleaned)
            image == EnvImage(nodes)
        IN /\ world_nodes' = nodes
           /\ mask_call' = mask_call
           /\ IF image # None
              THEN LET hdri_preview == PreviewOf(ImageOf(cleaned, image), FreshId(cleaned))
                   IN \E out \in process_hdri(hdri_preview.pixels, hdri_preview.size) :
                        /\ images' = Append(cleaned, [hdri_preview EXCEPT !.pixels = out.pixels])
                        /\ loc' = Locals(hdri_preview.size, hdri_preview.pixels, out)
                        /\ IF out.raised = ""
                           THEN /\ props' = [long_deg |-> out.long_deg, lat_deg |-> out.lat_deg,
                                             sun_position_calculated |-> TRUE]
                                /\ ret' = "FINISHED"
                           ELSE /\ props' = props
                                /\ ret' = out.raised
              ELSE /\ images' = cleaned
                   /\ loc' = NoLocals
                   /\ props' = props
                   /\ ret' = "CANCELLED"

\* the user rewires the world: any Environment Texture nodes over the images at hand
NodeSettings(imgs) ==
    UNION { [1..n -> Ids(imgs) \cup {None}] : n \in 0..MaxNodes }

EditWorld ==
    /\ \E nodes \in NodeSettings(images) : nodes # world_nodes /\ world_nodes' = nodes
    /\ ret' = "none"
    /\ loc' = NoLocals
    /\ UNCHANGED <<images, props, mask_call>>

InvokePictures ==
    { Picture(<<2, 2>>, Black, <<1, 0>>, White),
      Picture(<<2, 2>>, Black, <<>>, Black),
      Picture(<<2, 2>>, Cyan, <<0, 1>>, <<NaN, 0, 0, 1>>) }

Formats == <<"HDR", "OPEN_EXR">>

InitInvoke ==
    /\ \E pics \in [1..NImages -> InvokePictures] :
         images = [i \in 1..NImages |->
                     [id |-> i, name |-> <<"sky", ".", Formats[(i % 2) + 1]>>,
                      file_format |-> Formats[(i % 2) + 1],
                      size |-> <<2, 2>>, pixels |-> pics[i]]]
    /\ world_nodes = <<>>
    /\ props = NoProps
    /\ ret = "none"
    /\ loc = NoLocals
    /\ mask_call = NoMaskCall

NextInvoke == Invoke \/ EditWorld

SpecInvoke == InitInvoke /\ [][NextInvoke]_vars

\* C10: at most one image is named hdri_sa_preview..., and none after a
\* CANCELLED invocation; no step changes the pixels of the image the environment
\* texture uses, and a CANCELLED invocation leaves long_deg, lat_deg and
\* sun_position_calculated as they were.
C10_PreviewDiscipline ==
    /\ [](Cardinality(Previews(images)) <= 1 /\ (ret = "CANCELLED" => Previews(images) = {}))
    /\ [][ /\ \A i \in DOMAIN images : \A j \in DOMAIN images' :
                (images[i].id = EnvImage(world_nodes) /\ images'[j].id = images[i].id)
                    => images'[j].pixels = images[i].pixels
           /\ (ret' = "CANCELLED") => (props' = props) ]_vars

\* an invocation that found an image and drew on its preview, then one that did
\* not: the preview is gone, the properties of the first one stand
C10_Witness ==
    /\ ret = "CANCELLED"
    /\ props.sun_position_calculated
    /\ Previews(images) = {}
    /\ Len(images) = NImages

====
